---- MODULE Spec2Model ----
(***************************************************************************)
(* DishManager: the mutation API (backend/src/controllers/dishController), *)
(* the Dish schema, the Socket.IO broadcast channel and the handlers with  *)
(* which the Dashboard applies broadcast events to its local collection.   *)
(*                                                                         *)
(* A JavaScript string is a sequence of one-character strings; a request   *)
(* body or an event payload is a function whose domain is the set of keys  *)
(* it carries, so that "key absent" is JavaScript's undefined.             *)
(***************************************************************************)
EXTENDS Integers, Sequences, FiniteSets, TLC

\* Number of HTTP requests issued in one behaviour in which Dashboards and
\* other consumers of the API act concurrently.
MaxReq == 2
\* Number of HTTP requests issued in one behaviour of a Dashboard alone.
MaxSolo == 4
\* Number of browser clients holding a Socket.IO connection.
NClients == 1

Reqs == 1..MaxSolo
Clients == 1..NClients

\* The requests of a behaviour with concurrent consumers.
Early == 1..MaxReq

VARIABLES
    store,        \* the dishes collection: a set of documents
    seeded,       \* the collection as the server found it at start
    nextId,       \* the next _id the store assigns
    req,          \* per request: the handler's position and locals
    res,          \* per request: the HTTP response, once sent
    published,    \* every io.emit so far, in order
    writes,       \* every committed store operation of a mutation, in order
    connected,    \* per client: the socket is connected
    channel,      \* per client: events sent on the socket, not yet received
    received,     \* per client: events its listeners have run for, in order
    localDishes,  \* per client: Dashboard's localDishes
    applied,      \* per client: the last event payload applied to localDishes
    dishes,       \* per client: useFetchDishes' dishes
    loading,      \* per client: useFetchDishes' loading
    error,        \* per client: useFetchDishes' error
    caller,       \* per request: the client that sent it, 0 for another consumer
    handled,      \* per request: the caller's await has resumed
    pending       \* per client: the requests its mounted components await
                  \* (isSubmitting, isToggling, isDeleting)

serverVars == <<store, seeded, nextId, req, res, published, writes>>
socketVars == <<connected, channel, received>>
clientVars == <<localDishes, applied>>
hookVars == <<dishes, loading, error>>
uiVars == <<dishes, loading, error, caller, handled, pending>>
vars == <<store, seeded, nextId, req, res, published, writes,
          connected, channel, received, localDishes, applied,
          dishes, loading, error, caller, handled, pending>>

-----------------------------------------------------------------------------
(* Strings and the schema's setters *)

Space == " "

RECURSIVE TrimStart(_)
TrimStart(s) ==
    IF s # <<>> /\ Head(s) = Space THEN TrimStart(Tail(s)) ELSE s

RECURSIVE TrimEnd(_)
TrimEnd(s) ==
    IF s # <<>> /\ s[Len(s)] = Space THEN TrimEnd(SubSeq(s, 1, Len(s) - 1)) ELSE s

\* trim: true  (String.prototype.trim, run as a setter on documents and on
\* query filters)
Trim(s) == TrimEnd(TrimStart(s))

Has(body, k) == k \in DOMAIN body

\* Fault variant of Falsy: only a missing key is refused.
FalsyMissingOnly(body, k) == ~Has(body, k)

\* !x for a value that is a string or undefined
Falsy(body, k) == ~Has(body, k) \/ body[k] = <<>>

\* Fault variant of RequiredOk: the documents are saved unvalidated.
RequiredSkipped(doc) == TRUE

\* required: [true, ...] on a String path: the empty string fails
RequiredOk(doc) ==
    /\ doc.dishId # <<>>
    /\ doc.dishName # <<>>
    /\ doc.imageUrl # <<>>

-----------------------------------------------------------------------------
(* Values *)

\* null / no value yet
Null == [isNull |-> TRUE]

Str(t) == <<t>>

\* Documents the seed script has inserted before the server starts.
SeedA == [_id |-> 1, dishId |-> <<"a">>, dishName |-> <<"x">>,
          imageUrl |-> <<"u">>, isPublished |-> FALSE]
SeedB == [_id |-> 2, dishId |-> <<"b">>, dishName |-> <<"Y">>,
          imageUrl |-> <<"u">>, isPublished |-> TRUE]
SeedStores == { {}, {SeedA}, {SeedA, SeedB} }

\* Bodies of POST /api/dishes
CreateBodies ==
    { ("dishId" :> i) @@ ("dishName" :> n) @@ ("imageUrl" :> <<"u">>) :
        i \in { <<"a">>, <<" ", "a">>, <<" ">> },
        n \in { <<"x">>, <<" ">> } }
    \cup { ("dishId" :> <<"a">>) @@ ("dishName" :> <<"Y">>) @@ ("imageUrl" :> <<"u">>)
               @@ ("isPublished" :> TRUE),
           ("dishId" :> <<"a">>) @@ ("imageUrl" :> <<"u">>),
           ("dishId" :> <<"a">>) @@ ("dishName" :> <<"x">>) @@ ("imageUrl" :> <<>>),
           ("dishId" :> <<>>) @@ ("dishName" :> <<"x">>) @@ ("imageUrl" :> <<"u">>) }

\* Bodies of PUT /api/dishes/:dishId
UpdateBodies ==
    { <<>>,
      ("dishName" :> <<"Y">>),
      ("dishName" :> <<>>),
      ("imageUrl" :> <<>>),
      ("imageUrl" :> <<"v">>),
      ("isPublished" :> TRUE),
      ("dishName" :> <<"Y">>) @@ ("imageUrl" :> <<"v">>) @@ ("isPublished" :> TRUE) }

\* :dishId path parameters
ParamIds == { <<"a">>, <<" ", "a">>, <<"b">> }

Idle == [op |-> "none", params |-> <<>>, body |-> <<>>, pc |-> "idle",
         doc |-> Null, modified |-> {}, before |-> {}, t0 |-> 0]

NoRes == [status |-> 0]

Success(r) == res[r].status \in {200, 201}

\* The response of request r was sent.
Done(r) == req[r].pc = "done"

\* The operations that write to the store.
Mutations == {"create", "update", "delete", "toggle"}

-----------------------------------------------------------------------------
(* The store (models/Dish.js and the operations the controller calls) *)

\* Fault variant of FindOne: the filter is compared as given, untrimmed.
FindOneExact(s, dishId) ==
    LET match == { d \in s : d.dishId = dishId }
    IN  IF match = {} THEN {Null} ELSE match

\* Dish.findOne({ dishId }): the filter is cast through the schema, so the
\* trim setter applies; the result is a matching document or null.
FindOne(s, dishId) ==
    LET match == { d \in s : d.dishId = Trim(dishId) }
    IN  IF match = {} THEN {Null} ELSE match

\* Fault variant of DuplicateKey: the schema declares no unique index.
NoUniqueIndex(s, doc) == FALSE

\* unique: true on dishId: the index refuses a second document with the key.
DuplicateKey(s, doc) == \E d \in s : d.dishId = doc.dishId

\* new Dish({dishId, dishName, imageUrl, isPublished: isPublished || false})
NewDish(id, body) ==
    [_id |-> id,
     dishId |-> Trim(body.dishId),
     dishName |-> Trim(body.dishName),
     imageUrl |-> Trim(body.imageUrl),
     isPublished |-> IF Has(body, "isPublished") THEN body.isPublished ELSE FALSE]

\* if (x !== undefined) dish.x = x, for the three updatable paths
AssignFields(dish, body) ==
    [dish EXCEPT
        !.dishName = IF Has(body, "dishName") THEN Trim(body.dishName) ELSE @,
        !.imageUrl = IF Has(body, "imageUrl") THEN Trim(body.imageUrl) ELSE @,
        !.isPublished = IF Has(body, "isPublished") THEN body.isPublished ELSE @]

\* Fault variant of Toggled: the handler publishes instead of toggling.
SetPublished(dish) == [dish EXCEPT !.isPublished = TRUE]

\* dish.isPublished = !dish.isPublished
Toggled(dish) == [dish EXCEPT !.isPublished = ~@]

Paths == {"dishName", "imageUrl", "isPublished"}

\* The paths a document marks modified: those whose value changed.
ModifiedPaths(old, new) == { k \in Paths : old[k] # new[k] }

\* Fault variant of ApplySet: the update leaves isPublished out of its $set.
ApplySetWithoutStatus(stored, doc, modified) ==
    [stored EXCEPT
        !.dishName = IF "dishName" \in modified THEN doc.dishName ELSE @,
        !.imageUrl = IF "imageUrl" \in modified THEN doc.imageUrl ELSE @]

\* save() of a loaded document: updateOne({_id}, {$set: modified paths})
ApplySet(stored, doc, modified) ==
    [stored EXCEPT
        !.dishName = IF "dishName" \in modified THEN doc.dishName ELSE @,
        !.imageUrl = IF "imageUrl" \in modified THEN doc.imageUrl ELSE @,
        !.isPublished = IF "isPublished" \in modified THEN doc.isPublished ELSE @]

\* UTF-8 code of the characters in use.
CodePoint(ch) ==
    CASE ch = " " -> 32
      [] ch = "Y" -> 89
      [] ch = "a" -> 97
      [] ch = "b" -> 98
      [] ch = "c" -> 99
      [] ch = "u" -> 117
      [] ch = "v" -> 118
      [] ch = "x" -> 120

\* The store's comparison of two strings (no collation is configured): by
\* code, the shorter first among equals.
RECURSIVE CompareBinary(_, _)
CompareBinary(a, b) ==
    IF a = <<>> /\ b = <<>> THEN 0
    ELSE IF a = <<>> THEN -1
    ELSE IF b = <<>> THEN 1
    ELSE IF CodePoint(Head(a)) < CodePoint(Head(b)) THEN -1
    ELSE IF CodePoint(Head(a)) > CodePoint(Head(b)) THEN 1
    ELSE CompareBinary(Tail(a), Tail(b))

\* The orders in which a cursor can return the documents of s.
Orders(s) ==
    { f \in [1..Cardinality(s) -> s] : \A i, j \in 1..Cardinality(s) : i # j => f[i] # f[j] }

\* Fault variant of Find: the sort is left out.
FindUnsorted(s) == Orders(s)

\* Dish.find({}).sort({ dishName: 1 }): every document, ascending by
\* dishName; the order among equal names is the store's choice.
Find(s) ==
    { f \in Orders(s) :
        \A i, j \in 1..Cardinality(s) :
            i < j => CompareBinary(f[i].dishName, f[j].dishName) <= 0 }

WriteEntry(r, kind, pre, post) == [req |-> r, kind |-> kind, pre |-> pre, post |-> post]

-----------------------------------------------------------------------------
(* Responses and events *)

Json(status, success, message, data) ==
    [status |-> status, success |-> success, message |-> message, data |-> data]

ServerError(message, errorMessage) ==
    [status |-> 500, success |-> FALSE, message |-> message, error |-> errorMessage]

\* Fault variant of NotFound: the message names the trimmed dishId.
NotFoundTrimmed(dishId) ==
    [status |-> 404, success |-> FALSE,
     message |-> <<"Dish with ID ">> \o Trim(dishId) \o <<" not found">>]

NotFound(dishId) ==
    [status |-> 404, success |-> FALSE,
     message |-> <<"Dish with ID ">> \o dishId \o <<" not found">>]

AlreadyExists(dishId) ==
    [status |-> 400, success |-> FALSE,
     message |-> <<"Dish with ID ">> \o dishId \o <<" already exists">>]

Event(r, type, data) == [req |-> r, type |-> type, data |-> data]

\* Fault variant of Publish: the event is emitted twice.
PublishTwice(pub, e) == Append(Append(pub, e), e)

\* Fault variant of IoEmit: a socket sends its newest event first.
IoEmitNewestFirst(ch, conn, n) ==
    [c \in Clients |-> IF conn[c] THEN <<n>> \o ch[c] ELSE ch[c]]

\* req.io.emit(type, data): recorded, and sent on every connected socket
Publish(pub, e) == Append(pub, e)

\* Fault variant of IoEmit: the event is kept for the sockets that are not
\* connected.
IoEmitToAll(ch, conn, n) == [c \in Clients |-> Append(ch[c], n)]

IoEmit(ch, conn, n) == [c \in Clients |-> IF conn[c] THEN Append(ch[c], n) ELSE ch[c]]

-----------------------------------------------------------------------------
(* Requests: arrival runs the handler up to its first await *)

\* Requests are numbered in the order the server accepts them.
CanIssue(r) ==
    /\ req[r].pc = "idle"
    /\ \A q \in Reqs : q < r => req[q].pc # "idle"

Arrive(op, params, body, pc) ==
    [op |-> op, params |-> params, body |-> body, pc |-> pc,
     doc |-> Null, modified |-> {},
     before |-> { q \in Reqs : req[q].pc = "done" },
     t0 |-> Len(writes)]

Respond(r, response) ==
    /\ res' = [res EXCEPT ![r] = response]

Goto(r, pc) == [req EXCEPT ![r].pc = pc]

\* GET /api/dishes
GetDishes(r) ==
    /\ CanIssue(r)
    /\ req' = [req EXCEPT ![r] = Arrive("list", <<>>, <<>>, "find")]
    /\ UNCHANGED <<store, nextId, res, published, writes, socketVars, clientVars, seeded>>

\* getDishes after await Dish.find().sort()
GetDishesFind(r) ==
    /\ req[r].op = "list" /\ req[r].pc = "find"
    /\ \E found \in Find(store) :
         Respond(r, [status |-> 200, success |-> TRUE,
                     count |-> Len(found), data |-> found])
    /\ req' = Goto(r, "done")
    /\ UNCHANGED <<store, nextId, published, writes, socketVars, clientVars, uiVars, seeded>>

\* POST /api/dishes
CreateDish(r, body) ==
    /\ CanIssue(r)
    /\ IF Falsy(body, "dishId") \/ Falsy(body, "dishName") \/ Falsy(body, "imageUrl")
       THEN /\ req' = [req EXCEPT ![r] = Arrive("create", <<>>, body, "done")]
            /\ Respond(r, [status |-> 400, success |-> FALSE,
                           message |-> Str("Please provide dishId, dishName, and imageUrl")])
       ELSE /\ req' = [req EXCEPT ![r] = Arrive("create", <<>>, body, "findOne")]
            /\ UNCHANGED res
    /\ UNCHANGED <<store, nextId, published, writes, socketVars, clientVars, seeded>>

\* createDish after await Dish.findOne: the duplicate check, then Dish.create
\* builds and validates the document before it is sent to the store.
CreateFindOne(r) ==
    /\ req[r].op = "create" /\ req[r].pc = "findOne"
    /\ \E existingDish \in FindOne(store, req[r].body.dishId) :
         IF existingDish # Null
         THEN /\ Respond(r, AlreadyExists(req[r].body.dishId))
              /\ req' = Goto(r, "done")
              /\ UNCHANGED nextId
         ELSE LET dish == NewDish(nextId, req[r].body)
              IN  /\ nextId' = nextId + 1
                  /\ IF RequiredOk(dish)
                     THEN /\ req' = [req EXCEPT ![r].pc = "insert", ![r].doc = dish]
                          /\ UNCHANGED res
                     ELSE /\ Respond(r, ServerError(Str("Error creating dish"),
                                                    Str("Dish validation failed")))
                          /\ req' = Goto(r, "done")
    /\ UNCHANGED <<store, published, writes, socketVars, clientVars, uiVars, seeded>>

\* The store executes the insert of Dish.create.
CreateInsert(r) ==
    /\ req[r].op = "create" /\ req[r].pc = "insert"
    /\ IF DuplicateKey(store, req[r].doc)
       THEN /\ Respond(r, ServerError(Str("Error creating dish"),
                                      Str("E11000 duplicate key error")))
            /\ req' = Goto(r, "done")
            /\ UNCHANGED <<store, writes>>
       ELSE /\ store' = store \cup {req[r].doc}
            /\ writes' = Append(writes, WriteEntry(r, "insert", Null, req[r].doc))
            /\ req' = Goto(r, "respond")
            /\ UNCHANGED res
    /\ UNCHANGED <<nextId, published, socketVars, clientVars, uiVars, seeded>>

\* Emit, then answer: one synchronous stretch after the awaited write.
EmitAndRespond(r, type, data, response) ==
    /\ req[r].pc = "respond"
    /\ published' = Publish(published, Event(r, type, data))
    /\ channel' = IoEmit(channel, connected, Len(published'))
    /\ Respond(r, response)
    /\ req' = Goto(r, "done")
    /\ UNCHANGED <<store, nextId, writes, connected, received, clientVars, uiVars, seeded>>

CreateRespond(r) ==
    /\ req[r].op = "create"
    /\ EmitAndRespond(r, "dish-created", [dish |-> req[r].doc],
                      Json(201, TRUE, Str("Dish created successfully"), req[r].doc))

\* PUT /api/dishes/:dishId
UpdateDish(r, dishId, body) ==
    /\ CanIssue(r)
    /\ req' = [req EXCEPT ![r] = Arrive("update", [dishId |-> dishId], body, "findOne")]
    /\ UNCHANGED <<store, nextId, res, published, writes, socketVars, clientVars, seeded>>

\* Fault variant of UpdateFindOne: the event is emitted before the save is
\* awaited.
UpdateFindOneEmitsFirst(r) ==
    /\ req[r].op = "update" /\ req[r].pc = "findOne"
    /\ \E dish \in FindOne(store, req[r].params.dishId) :
         IF dish = Null
         THEN /\ Respond(r, NotFound(req[r].params.dishId))
              /\ req' = Goto(r, "done")
              /\ UNCHANGED <<published, channel>>
         ELSE LET updated == AssignFields(dish, req[r].body)
              IN  IF RequiredOk(updated)
                  THEN /\ req' = [req EXCEPT ![r].pc = "save", ![r].doc = updated,
                                             ![r].modified = ModifiedPaths(dish, updated)]
                       /\ published' = Publish(published,
                                               Event(r, "dish-updated",
                                                     [dishId |-> updated.dishId,
                                                      dish |-> updated]))
                       /\ channel' = IoEmit(channel, connected, Len(published'))
                       /\ UNCHANGED res
                  ELSE /\ Respond(r, ServerError(Str("Error updating dish"),
                                                 Str("Dish validation failed")))
                       /\ req' = Goto(r, "done")
                       /\ UNCHANGED <<published, channel>>
    /\ UNCHANGED <<store, nextId, writes, connected, received, clientVars, uiVars, seeded>>

\* updateDish after await Dish.findOne: assign the supplied fields; save()
\* validates before it sends the update.
UpdateFindOne(r) ==
    /\ req[r].op = "update" /\ req[r].pc = "findOne"
    /\ \E dish \in FindOne(store, req[r].params.dishId) :
         IF dish = Null
         THEN /\ Respond(r, NotFound(req[r].params.dishId))
              /\ req' = Goto(r, "done")
         ELSE LET updated == AssignFields(dish, req[r].body)
              IN  IF RequiredOk(updated)
                  THEN /\ req' = [req EXCEPT ![r].pc = "save", ![r].doc = updated,
                                             ![r].modified = ModifiedPaths(dish, updated)]
                       /\ UNCHANGED res
                  ELSE /\ Respond(r, ServerError(Str("Error updating dish"),
                                                 Str("Dish validation failed")))
                       /\ req' = Goto(r, "done")
    /\ UNCHANGED <<store, nextId, published, writes, socketVars, clientVars, uiVars, seeded>>

\* Fault variant of Save: an update that matches no document inserts it.
SaveUpserts(r, failure) ==
    /\ req[r].pc = "save"
    /\ LET target == { d \in store : d._id = req[r].doc._id }
       IN  \E stored \in (IF target = {} THEN {req[r].doc} ELSE target) :
             LET saved == ApplySet(stored, req[r].doc, req[r].modified)
             IN  /\ store' = (store \ {stored}) \cup {saved}
                 /\ writes' = Append(writes, WriteEntry(r, "save", stored, saved))
    /\ req' = Goto(r, "respond")
    /\ UNCHANGED <<nextId, res, published, socketVars, clientVars, uiVars, seeded>>

\* The store executes the update of dish.save(): by _id, the modified paths
\* (with none modified, save() only looks the document up). A document that
\* is gone makes save() throw DocumentNotFoundError.
Save(r, failure) ==
    /\ req[r].pc = "save"
    /\ LET target == { d \in store : d._id = req[r].doc._id }
       IN  IF target = {}
           THEN /\ Respond(r, ServerError(failure, Str("No document found for query")))
                /\ req' = Goto(r, "done")
                /\ UNCHANGED <<store, writes>>
           ELSE \E stored \in target :
                  LET saved == ApplySet(stored, req[r].doc, req[r].modified)
                  IN  /\ store' = (store \ {stored}) \cup {saved}
                      /\ writes' = IF req[r].modified = {} THEN writes
                                   ELSE Append(writes, WriteEntry(r, "save", stored, saved))
                      /\ req' = Goto(r, "respond")
                      /\ UNCHANGED res
    /\ UNCHANGED <<nextId, published, socketVars, clientVars, uiVars, seeded>>

UpdateSave(r) ==
    /\ req[r].op = "update"
    /\ Save(r, Str("Error updating dish"))

UpdateRespond(r) ==
    /\ req[r].op = "update"
    /\ EmitAndRespond(r, "dish-updated",
                      [dishId |-> req[r].doc.dishId, dish |-> req[r].doc],
                      Json(200, TRUE, Str("Dish updated successfully"), req[r].doc))

\* DELETE /api/dishes/:dishId
DeleteDish(r, dishId) ==
    /\ CanIssue(r)
    /\ req' = [req EXCEPT ![r] = Arrive("delete", [dishId |-> dishId], <<>>, "findOneAndDelete")]
    /\ UNCHANGED <<store, nextId, res, published, writes, socketVars, clientVars, seeded>>

\* Fault variant of DeleteFindOneAndDelete: a Delete that finds nothing goes
\* on to emit and answer 200.
DeleteWithoutCheck(r) ==
    /\ req[r].op = "delete" /\ req[r].pc = "findOneAndDelete"
    /\ \E dish \in FindOne(store, req[r].params.dishId) :
         IF dish = Null
         THEN /\ req' = Goto(r, "respond")
              /\ UNCHANGED <<store, writes>>
         ELSE /\ store' = store \ {dish}
              /\ writes' = Append(writes, WriteEntry(r, "delete", dish, Null))
              /\ req' = [req EXCEPT ![r].pc = "respond", ![r].doc = dish]
    /\ UNCHANGED <<nextId, res, published, socketVars, clientVars, uiVars, seeded>>

\* The store executes Dish.findOneAndDelete atomically.
DeleteFindOneAndDelete(r) ==
    /\ req[r].op = "delete" /\ req[r].pc = "findOneAndDelete"
    /\ \E dish \in FindOne(store, req[r].params.dishId) :
         IF dish = Null
         THEN /\ Respond(r, NotFound(req[r].params.dishId))
              /\ req' = Goto(r, "done")
              /\ UNCHANGED <<store, writes>>
         ELSE /\ store' = store \ {dish}
              /\ writes' = Append(writes, WriteEntry(r, "delete", dish, Null))
              /\ req' = [req EXCEPT ![r].pc = "respond", ![r].doc = dish]
              /\ UNCHANGED res
    /\ UNCHANGED <<nextId, published, socketVars, clientVars, uiVars, seeded>>

DeleteRespond(r) ==
    /\ req[r].op = "delete"
    /\ EmitAndRespond(r, "dish-deleted", [dishId |-> req[r].params.dishId],
                      Json(200, TRUE, Str("Dish deleted successfully"), <<>>))

\* PUT /api/dishes/:dishId/toggle
TogglePublishStatus(r, dishId) ==
    /\ CanIssue(r)
    /\ req' = [req EXCEPT ![r] = Arrive("toggle", [dishId |-> dishId], <<>>, "findOne")]
    /\ UNCHANGED <<store, nextId, res, published, writes, socketVars, clientVars, seeded>>

\* Fault variant of ToggleFindOne: the event is emitted before the save is
\* awaited.
ToggleFindOneEmitsFirst(r) ==
    /\ req[r].op = "toggle" /\ req[r].pc = "findOne"
    /\ \E dish \in FindOne(store, req[r].params.dishId) :
         IF dish = Null
         THEN /\ Respond(r, NotFound(req[r].params.dishId))
              /\ req' = Goto(r, "done")
              /\ UNCHANGED <<published, channel>>
         ELSE /\ req' = [req EXCEPT ![r].pc = "save", ![r].doc = Toggled(dish),
                                    ![r].modified = ModifiedPaths(dish, Toggled(dish))]
              /\ published' = Publish(published,
                                      Event(r, "publish-status-updated",
                                            [dishId |-> dish.dishId,
                                             isPublished |-> ~dish.isPublished,
                                             dish |-> Toggled(dish)]))
              /\ channel' = IoEmit(channel, connected, Len(published'))
              /\ UNCHANGED res
    /\ UNCHANGED <<store, nextId, writes, connected, received, clientVars, uiVars, seeded>>

ToggleFindOne(r) ==
    /\ req[r].op = "toggle" /\ req[r].pc = "findOne"
    /\ \E dish \in FindOne(store, req[r].params.dishId) :
         IF dish = Null
         THEN /\ Respond(r, NotFound(req[r].params.dishId))
              /\ req' = Goto(r, "done")
         ELSE /\ req' = [req EXCEPT ![r].pc = "save", ![r].doc = Toggled(dish),
                                    ![r].modified = ModifiedPaths(dish, Toggled(dish))]
              /\ UNCHANGED res
    /\ UNCHANGED <<store, nextId, published, writes, socketVars, clientVars, uiVars, seeded>>

ToggleSave(r) ==
    /\ req[r].op = "toggle"
    /\ Save(r, Str("Error toggling publish status"))

ToggleRespond(r) ==
    /\ req[r].op = "toggle"
    /\ EmitAndRespond(r, "publish-status-updated",
                      [dishId |-> req[r].doc.dishId,
                       isPublished |-> req[r].doc.isPublished,
                       dish |-> req[r].doc],
                      Json(200, TRUE,
                           IF req[r].doc.isPublished
                           THEN Str("Dish published successfully")
                           ELSE Str("Dish unpublished successfully"),
                           req[r].doc))

\* The awaited store call rejects (connection lost, timeout): the catch block.
CatchMessage(op) ==
    CASE op = "list" -> Str("Error fetching dishes")
      [] op = "create" -> Str("Error creating dish")
      [] op = "update" -> Str("Error updating dish")
      [] op = "delete" -> Str("Error deleting dish")
      [] op = "toggle" -> Str("Error toggling publish status")

StoreError(r) ==
    /\ req[r].pc \in {"find", "findOne", "insert", "save", "findOneAndDelete"}
    /\ Respond(r, ServerError(CatchMessage(req[r].op), Str("store unavailable")))
    /\ req' = Goto(r, "done")
    /\ UNCHANGED <<store, nextId, published, writes, socketVars, clientVars, uiVars, seeded>>

-----------------------------------------------------------------------------
(* The Dashboard's socket listeners: pure transformations of localDishes *)

\* Collation of the characters in use, as String.prototype.localeCompare
\* orders them: the space first, then the letters alphabetically, whatever
\* their case.
Collation == <<" ", "a", "b", "c", "u", "v", "x", "Y">>

Rank(ch) == CHOOSE i \in 1..Len(Collation) : Collation[i] = ch

\* a.localeCompare(b): negative, zero or positive
RECURSIVE LocaleCompare(_, _)
LocaleCompare(a, b) ==
    IF a = <<>> /\ b = <<>> THEN 0
    ELSE IF a = <<>> THEN -1
    ELSE IF b = <<>> THEN 1
    ELSE IF Rank(Head(a)) < Rank(Head(b)) THEN -1
    ELSE IF Rank(Head(a)) > Rank(Head(b)) THEN 1
    ELSE LocaleCompare(Tail(a), Tail(b))

\* Array.prototype.sort is stable: an element goes after its equals.
RECURSIVE InsertByName(_, _)
InsertByName(sorted, d) ==
    IF sorted = <<>> THEN <<d>>
    ELSE IF LocaleCompare(Head(sorted).dishName, d.dishName) > 0
         THEN <<d>> \o sorted
         ELSE <<Head(sorted)>> \o InsertByName(Tail(sorted), d)

\* Fault variant of SortByName: the list is left in the order it has.
SortSkipped(list) == list

RECURSIVE SortByName(_)
SortByName(list) ==
    IF list = <<>> THEN <<>>
    ELSE InsertByName(SortByName(SubSeq(list, 1, Len(list) - 1)), list[Len(list)])

\* Fault variant of HandlePublishStatusUpdate: the listener flips the flag
\* instead of setting it.
HandlePublishStatusFlip(prevDishes, data) ==
    [i \in 1..Len(prevDishes) |->
        IF prevDishes[i].dishId = data.dishId
        THEN [prevDishes[i] EXCEPT !.isPublished = ~@]
        ELSE prevDishes[i]]

\* handlePublishStatusUpdate
HandlePublishStatusUpdate(prevDishes, data) ==
    [i \in 1..Len(prevDishes) |->
        IF prevDishes[i].dishId = data.dishId
        THEN [prevDishes[i] EXCEPT !.isPublished = data.isPublished]
        ELSE prevDishes[i]]

\* Fault variant of HandleDishCreated: the dish is added without the check.
HandleDishCreatedUnchecked(prevDishes, data) ==
    SortByName(Append(prevDishes, data.dish))

\* handleDishCreated
HandleDishCreated(prevDishes, data) ==
    IF \E i \in 1..Len(prevDishes) : prevDishes[i].dishId = data.dish.dishId
    THEN prevDishes
    ELSE SortByName(Append(prevDishes, data.dish))

\* Fault variant of HandleDishUpdated: the list is sorted again after the
\* record is replaced.
HandleDishUpdatedSorted(prevDishes, data) ==
    SortByName([i \in 1..Len(prevDishes) |->
                   IF prevDishes[i].dishId = data.dishId THEN data.dish
                   ELSE prevDishes[i]])

\* handleDishUpdated
HandleDishUpdated(prevDishes, data) ==
    [i \in 1..Len(prevDishes) |->
        IF prevDishes[i].dishId = data.dishId THEN data.dish ELSE prevDishes[i]]

\* handleDishDeleted
HandleDishDeleted(prevDishes, data) ==
    LET Keep(dish) == dish.dishId # data.dishId
    IN  SelectSeq(prevDishes, Keep)

\* socket.on(type, handler): the listener registered for the event's type
ApplyEvent(prevDishes, type, data) ==
    CASE type = "publish-status-updated" -> HandlePublishStatusUpdate(prevDishes, data)
      [] type = "dish-created" -> HandleDishCreated(prevDishes, data)
      [] type = "dish-updated" -> HandleDishUpdated(prevDishes, data)
      [] type = "dish-deleted" -> HandleDishDeleted(prevDishes, data)

-----------------------------------------------------------------------------
(* What the Dashboard renders, and the components it keeps mounted *)

\* The branch of Dashboard's render: loading, error, empty state or the grid.
View(l, e, d) ==
    IF l THEN "loading"
    ELSE IF e # Null THEN "error"
    ELSE IF d = <<>> THEN "empty"
    ELSE "main"

ViewOf(c) == View(loading[c], error[c], localDishes[c])

\* The awaited requests whose component is still mounted after a render with
\* loading l, error e and localDishes d: another branch mounts a new modal
\* and new cards, and a card goes with its dish.
Mounted(c, l, e, d) ==
    IF View(l, e, d) # ViewOf(c) THEN {}
    ELSE { r \in pending[c] :
             req[r].op \in {"toggle", "delete"} =>
                 \E i \in DOMAIN d : d[i].dishId = req[r].params.dishId }

\* isSubmitting of the mounted modal
ModalBusy(c) == \E r \in pending[c] : req[r].op \in {"create", "update"}

\* isToggling || isDeleting of the mounted card of a dish
CardBusy(c, dishId) ==
    \E r \in pending[c] :
        req[r].op \in {"toggle", "delete"} /\ req[r].params.dishId = dishId

-----------------------------------------------------------------------------
(* The sockets *)

\* useSocket: io(SOCKET_URL) connects, and reconnects after a loss
Connect(c) ==
    /\ ~connected[c]
    /\ connected' = [connected EXCEPT ![c] = TRUE]
    /\ UNCHANGED <<serverVars, channel, received, clientVars, uiVars>>

\* The connection drops: what was in flight is lost, nothing is replayed.
Disconnect(c) ==
    /\ connected[c]
    /\ connected' = [connected EXCEPT ![c] = FALSE]
    /\ channel' = [channel EXCEPT ![c] = <<>>]
    /\ UNCHANGED <<serverVars, received, clientVars, uiVars>>

\* The socket hands the oldest event in flight to its listener.
Receive(c) ==
    /\ channel[c] # <<>>
    /\ LET e == published[Head(channel[c])]
       IN  /\ localDishes' = [localDishes EXCEPT ![c] = ApplyEvent(@, e.type, e.data)]
           /\ applied' = [applied EXCEPT ![c] = [type |-> e.type, data |-> e.data]]
    /\ received' = [received EXCEPT ![c] = Append(@, Head(channel[c]))]
    /\ channel' = [channel EXCEPT ![c] = Tail(@)]
    /\ pending' = [pending EXCEPT
                      ![c] = Mounted(c, loading[c], error[c], localDishes'[c])]
    /\ UNCHANGED <<serverVars, connected, hookVars, caller, handled>>

-----------------------------------------------------------------------------
(* Requests of consumers of the API other than the Dashboards *)

GetApiDishes(r) ==
    /\ UNCHANGED uiVars
    /\ GetDishes(r)

PostApiDishes(r, body) ==
    /\ UNCHANGED uiVars
    /\ CreateDish(r, body)

PutApiDish(r, dishId, body) ==
    /\ UNCHANGED uiVars
    /\ UpdateDish(r, dishId, body)

DeleteApiDish(r, dishId) ==
    /\ UNCHANGED uiVars
    /\ DeleteDish(r, dishId)

PutApiDishToggle(r, dishId) ==
    /\ UNCHANGED uiVars
    /\ TogglePublishStatus(r, dishId)

-----------------------------------------------------------------------------
(* The server with its sockets *)

Init ==
    /\ store \in SeedStores
    /\ seeded = store
    /\ nextId = 3
    /\ req = [r \in Reqs |-> Idle]
    /\ res = [r \in Reqs |-> NoRes]
    /\ published = <<>>
    /\ writes = <<>>
    /\ connected = [c \in Clients |-> FALSE]
    /\ channel = [c \in Clients |-> <<>>]
    /\ received = [c \in Clients |-> <<>>]
    /\ localDishes = [c \in Clients |-> <<>>]
    /\ applied = [c \in Clients |-> Null]
    /\ dishes = [c \in Clients |-> <<>>]
    /\ loading = [c \in Clients |-> TRUE]
    /\ error = [c \in Clients |-> Null]
    /\ caller = [r \in Reqs |-> 0]
    /\ handled = [r \in Reqs |-> FALSE]
    /\ pending = [c \in Clients |-> {}]

Next ==
    \/ \E r \in Early : GetApiDishes(r)
    \/ \E r \in Early : GetDishesFind(r)
    \/ \E r \in Early, body \in CreateBodies : PostApiDishes(r, body)
    \/ \E r \in Early : CreateFindOne(r)
    \/ \E r \in Early : CreateInsert(r)
    \/ \E r \in Early : CreateRespond(r)
    \/ \E r \in Early, dishId \in ParamIds, body \in UpdateBodies : PutApiDish(r, dishId, body)
    \/ \E r \in Early : UpdateFindOne(r)
    \/ \E r \in Early : UpdateSave(r)
    \/ \E r \in Early : UpdateRespond(r)
    \/ \E r \in Early, dishId \in ParamIds : DeleteApiDish(r, dishId)
    \/ \E r \in Early : DeleteFindOneAndDelete(r)
    \/ \E r \in Early : DeleteRespond(r)
    \/ \E r \in Early, dishId \in ParamIds : PutApiDishToggle(r, dishId)
    \/ \E r \in Early : ToggleFindOne(r)
    \/ \E r \in Early : ToggleSave(r)
    \/ \E r \in Early : ToggleRespond(r)
    \/ \E r \in Early : StoreError(r)
    \/ \E c \in Clients : Connect(c)
    \/ \E c \in Clients : Disconnect(c)
    \/ \E c \in Clients : Receive(c)

Spec == Init /\ [][Next]_vars

-----------------------------------------------------------------------------
(* The listeners alone, from the empty collection, on any events *)

LocalIds == { <<"a">>, <<"b">>, <<"c">> }

\* Dishes as an event delivers them.
LocalDishSet ==
    { [_id |-> Rank(Head(i)), dishId |-> i, dishName |-> n,
       imageUrl |-> <<"u">>, isPublished |-> p] :
        i \in LocalIds, n \in { <<"x">>, <<"Y">> }, p \in BOOLEAN }

PublishStatusPayloads ==
    { [dishId |-> d.dishId, isPublished |-> d.isPublished, dish |-> d] : d \in LocalDishSet }
DishCreatedPayloads == { [dish |-> d] : d \in LocalDishSet }
DishUpdatedPayloads == { [dishId |-> d.dishId, dish |-> d] : d \in LocalDishSet }
DishDeletedPayloads == { [dishId |-> i] : i \in LocalIds \cup { <<" ", "a">> } }

\* One Dashboard is exercised in a behaviour.
Exercised(c) == \A d \in Clients \ {c} : applied[d] = Null

Applied(c, type, data) ==
    /\ localDishes' = [localDishes EXCEPT ![c] = ApplyEvent(@, type, data)]
    /\ applied' = [applied EXCEPT ![c] = [type |-> type, data |-> data]]
    /\ UNCHANGED <<serverVars, socketVars, uiVars>>

OnPublishStatusUpdated(c, data) ==
    /\ Exercised(c)
    /\ Applied(c, "publish-status-updated", data)

OnDishCreated(c, data) ==
    /\ Exercised(c)
    /\ Applied(c, "dish-created", data)

OnDishUpdated(c, data) ==
    /\ Exercised(c)
    /\ Applied(c, "dish-updated", data)

OnDishDeleted(c, data) ==
    /\ Exercised(c)
    /\ Applied(c, "dish-deleted", data)

InitApply ==
    /\ store = {}
    /\ seeded = {}
    /\ nextId = 3
    /\ req = [r \in Reqs |-> Idle]
    /\ res = [r \in Reqs |-> NoRes]
    /\ published = <<>>
    /\ writes = <<>>
    /\ connected = [c \in Clients |-> TRUE]
    /\ channel = [c \in Clients |-> <<>>]
    /\ received = [c \in Clients |-> <<>>]
    /\ localDishes = [c \in Clients |-> <<>>]
    /\ applied = [c \in Clients |-> Null]
    /\ dishes = [c \in Clients |-> <<>>]
    /\ loading = [c \in Clients |-> TRUE]
    /\ error = [c \in Clients |-> Null]
    /\ caller = [r \in Reqs |-> 0]
    /\ handled = [r \in Reqs |-> FALSE]
    /\ pending = [c \in Clients |-> {}]

NextApply ==
    \/ \E c \in Clients, data \in PublishStatusPayloads : OnPublishStatusUpdated(c, data)
    \/ \E c \in Clients, data \in DishCreatedPayloads : OnDishCreated(c, data)
    \/ \E c \in Clients, data \in DishUpdatedPayloads : OnDishUpdated(c, data)
    \/ \E c \in Clients, data \in DishDeletedPayloads : OnDishDeleted(c, data)

SpecApply == InitApply /\ [][NextApply]_vars

-----------------------------------------------------------------------------
(* The Dashboard: useFetchDishes, DishCard, DishModal and the callbacks *)

\* What the user types into the Add form.
CreateForms ==
    { ("dishId" :> i) @@ ("dishName" :> n) @@ ("imageUrl" :> <<"u">>)
          @@ ("isPublished" :> FALSE) :
        i \in { <<"a">>, <<"c">> }, n \in { <<"x">>, <<>> } }

\* What the user leaves in the Edit form.
UpdateForms ==
    { ("dishName" :> n) @@ ("imageUrl" :> <<"u">>) @@ ("isPublished" :> p) :
        n \in { <<"c">>, <<>> }, p \in BOOLEAN }

\* Dish ids other consumers name in their requests.
OtherIds == { <<"a">>, <<"b">> }

\* Bodies other consumers send.
OtherCreateBodies ==
    { ("dishId" :> <<"b">>) @@ ("dishName" :> <<"a">>) @@ ("imageUrl" :> <<"u">>) }

OtherUpdateBodies == { ("dishName" :> <<"c">>) }

\* The error axios throws for a status outside 2xx; the hook keeps its message.
AxiosError(response) ==
    [message |->
        IF response.status = 500 THEN Str("Request failed with status code 500")
        ELSE IF response.status = 404 THEN Str("Request failed with status code 404")
        ELSE Str("Request failed with status code 400")]

\* The awaited axios call of client c for request r returns or throws.
Resumes(c, r) == caller[r] = c /\ Done(r) /\ ~handled[r]

\* fetchDishes up to its await: setLoading(true), setError(null), axios.get
FetchDishes(c, r) ==
    /\ GetDishes(r)
    /\ caller' = [caller EXCEPT ![r] = c]
    /\ loading' = [loading EXCEPT ![c] = TRUE]
    /\ error' = [error EXCEPT ![c] = Null]
    /\ pending' = [pending EXCEPT ![c] = Mounted(c, TRUE, Null, localDishes[c])]
    /\ UNCHANGED dishes

\* useEffect(() => { fetchDishes() }, []): the fetch on mount
Mount(c, r) ==
    /\ loading[c]
    /\ ~\E q \in Reqs : caller[q] = c /\ req[q].op = "list"
    /\ FetchDishes(c, r)
    /\ UNCHANGED handled

\* The Try Again button of the error view
TryAgain(c, r) ==
    /\ ViewOf(c) = "error"
    /\ FetchDishes(c, r)
    /\ UNCHANGED handled

\* The Refresh button of the empty view
Refresh(c, r) ==
    /\ ViewOf(c) = "empty"
    /\ ~ModalBusy(c)
    /\ FetchDishes(c, r)
    /\ UNCHANGED handled

\* fetchDishes after its await, and the effect that copies dishes
FetchResolved(c, r) ==
    /\ Resumes(c, r) /\ req[r].op = "list"
    /\ handled' = [handled EXCEPT ![r] = TRUE]
    /\ IF Success(r) /\ res[r].success
       THEN /\ dishes' = [dishes EXCEPT ![c] = res[r].data]
            /\ localDishes' = [localDishes EXCEPT ![c] = res[r].data]
            /\ UNCHANGED error
       ELSE /\ error' = [error EXCEPT ![c] = AxiosError(res[r])]
            /\ UNCHANGED <<dishes, localDishes>>
    /\ loading' = [loading EXCEPT ![c] = FALSE]
    /\ pending' = [pending EXCEPT ![c] = Mounted(c, FALSE, error'[c], localDishes'[c])]
    /\ UNCHANGED <<serverVars, socketVars, applied, caller>>

\* Fault variant of HandleToggle: the status is stored negated.
HandleToggleNegated(prevDishes, dishId, newStatus) ==
    [i \in 1..Len(prevDishes) |->
        IF prevDishes[i].dishId = dishId
        THEN [prevDishes[i] EXCEPT !.isPublished = ~newStatus]
        ELSE prevDishes[i]]

\* Dashboard.handleToggle
HandleToggle(prevDishes, dishId, newStatus) ==
    [i \in 1..Len(prevDishes) |->
        IF prevDishes[i].dishId = dishId
        THEN [prevDishes[i] EXCEPT !.isPublished = newStatus]
        ELSE prevDishes[i]]

\* Fault variant of HandleDelete: the local list is left as it is.
HandleDeleteKeeps(prevDishes, dishId) == prevDishes

\* Dashboard.handleDelete
HandleDelete(prevDishes, dishId) ==
    LET Keep(dish) == dish.dishId # dishId
    IN  SelectSeq(prevDishes, Keep)

\* A click on a button of card i: the request is sent, the card is busy.
CardClick(c, r, i) ==
    /\ ViewOf(c) = "main" /\ i \in DOMAIN localDishes[c]
    /\ ~ModalBusy(c)
    /\ ~CardBusy(c, localDishes[c][i].dishId)
    /\ caller' = [caller EXCEPT ![r] = c]
    /\ pending' = [pending EXCEPT ![c] = @ \cup {r}]
    /\ UNCHANGED <<hookVars, handled>>

\* DishCard.handleToggle up to its await
CardToggle(c, r, i) ==
    /\ CardClick(c, r, i)
    /\ TogglePublishStatus(r, localDishes[c][i].dishId)

\* Fault variant of OnToggleResponse: the callback runs on any response.
OnToggleResponseAlways(prevDishes, response, dishId) ==
    HandleToggle(prevDishes, dishId, TRUE)

\* DishCard.handleToggle after its await: onToggle on success, a toast otherwise
OnToggleResponse(prevDishes, response, dishId) ==
    IF response.status \in {200, 201} /\ response.success
    THEN HandleToggle(prevDishes, dishId, response.data.isPublished)
    ELSE prevDishes

ToggleResolved(c, r) ==
    /\ Resumes(c, r) /\ req[r].op = "toggle"
    /\ handled' = [handled EXCEPT ![r] = TRUE]
    /\ localDishes' = [localDishes EXCEPT
                          ![c] = OnToggleResponse(@, res[r], req[r].params.dishId)]
    /\ pending' = [pending EXCEPT
                      ![c] = Mounted(c, loading[c], error[c], localDishes'[c]) \ {r}]
    /\ UNCHANGED <<serverVars, socketVars, applied, hookVars, caller>>

\* DishCard.handleDelete up to its await (the user confirms)
CardDelete(c, r, i) ==
    /\ CardClick(c, r, i)
    /\ DeleteDish(r, localDishes[c][i].dishId)

\* DishCard.handleDelete after its await: onDelete on success
OnDeleteResponse(prevDishes, response, dishId) ==
    IF response.status \in {200, 201} /\ response.success
    THEN HandleDelete(prevDishes, dishId)
    ELSE prevDishes

DeleteResolved(c, r) ==
    /\ Resumes(c, r) /\ req[r].op = "delete"
    /\ handled' = [handled EXCEPT ![r] = TRUE]
    /\ localDishes' = [localDishes EXCEPT
                          ![c] = OnDeleteResponse(@, res[r], req[r].params.dishId)]
    /\ pending' = [pending EXCEPT
                      ![c] = Mounted(c, loading[c], error[c], localDishes'[c]) \ {r}]
    /\ UNCHANGED <<serverVars, socketVars, applied, hookVars, caller>>

\* DishModal.handleSubmit up to its await: the form is checked, then sent.
ModalSubmit(c, r, formData) ==
    /\ ViewOf(c) \in {"empty", "main"}
    /\ ~ModalBusy(c)
    /\ ~Falsy(formData, "dishId") /\ ~Falsy(formData, "dishName")
    /\ ~Falsy(formData, "imageUrl")
    /\ caller' = [caller EXCEPT ![r] = c]
    /\ pending' = [pending EXCEPT ![c] = @ \cup {r}]
    /\ UNCHANGED <<hookVars, handled>>

\* Add Dish: axios.post(formData)
ModalCreate(c, r, formData) ==
    /\ ModalSubmit(c, r, formData)
    /\ CreateDish(r, formData)

\* Edit of card i: axios.put(dish.dishId, {dishName, imageUrl, isPublished})
ModalUpdate(c, r, i, formData) ==
    /\ ViewOf(c) = "main" /\ i \in DOMAIN localDishes[c]
    /\ ~CardBusy(c, localDishes[c][i].dishId)
    /\ ModalSubmit(c, r, ("dishId" :> localDishes[c][i].dishId) @@ formData)
    /\ UpdateDish(r, localDishes[c][i].dishId, formData)

\* DishModal.handleSubmit after its await, on success: onSuccess is
\* handleModalSuccess, which refetches with request f.
ModalSucceeded(c, r, f) ==
    /\ Resumes(c, r) /\ req[r].op \in {"create", "update"}
    /\ Success(r) /\ res[r].success
    /\ handled' = [handled EXCEPT ![r] = TRUE]
    /\ FetchDishes(c, f)

\* DishModal.handleSubmit after its await, in the catch: a toast.
ModalFailed(c, r) ==
    /\ Resumes(c, r) /\ req[r].op \in {"create", "update"}
    /\ ~Success(r)
    /\ handled' = [handled EXCEPT ![r] = TRUE]
    /\ pending' = [pending EXCEPT ![c] = @ \ {r}]
    /\ UNCHANGED <<serverVars, socketVars, clientVars, hookVars, caller>>

\* The states a Dashboard is started in: mounting, or ready with the
\* snapshot of an earlier fetch.
InitClient ==
    /\ store \in SeedStores
    /\ seeded = store
    /\ nextId = 3
    /\ req = [r \in Reqs |-> Idle]
    /\ res = [r \in Reqs |-> NoRes]
    /\ published = <<>>
    /\ writes = <<>>
    /\ connected \in [Clients -> BOOLEAN]
    /\ channel = [c \in Clients |-> <<>>]
    /\ received = [c \in Clients |-> <<>>]
    /\ applied = [c \in Clients |-> Null]
    /\ loading \in [Clients -> BOOLEAN]
    /\ dishes \in [Clients -> Find(store) \cup {<<>>}]
    /\ \A c \in Clients : IF loading[c] THEN dishes[c] = <<>>
                                      ELSE dishes[c] \in Find(store)
    /\ localDishes = dishes
    /\ error = [c \in Clients |-> Null]
    /\ caller = [r \in Reqs |-> 0]
    /\ handled = [r \in Reqs |-> FALSE]
    /\ pending = [c \in Clients |-> {}]

NextClient ==
    \/ \E c \in Clients, r \in Early : Mount(c, r)
    \/ \E c \in Clients, r \in Early : TryAgain(c, r)
    \/ \E c \in Clients, r \in Early : Refresh(c, r)
    \/ \E c \in Clients, r \in Early : FetchResolved(c, r)
    \/ \E c \in Clients, r \in Early, i \in 1..2 : CardToggle(c, r, i)
    \/ \E c \in Clients, r \in Early : ToggleResolved(c, r)
    \/ \E c \in Clients, r \in Early, i \in 1..2 : CardDelete(c, r, i)
    \/ \E c \in Clients, r \in Early : DeleteResolved(c, r)
    \/ \E c \in Clients, r \in Early, formData \in CreateForms : ModalCreate(c, r, formData)
    \/ \E c \in Clients, r \in Early, i \in 1..2, formData \in UpdateForms :
           ModalUpdate(c, r, i, formData)
    \/ \E c \in Clients, r, f \in Early : ModalSucceeded(c, r, f)
    \/ \E c \in Clients, r \in Early : ModalFailed(c, r)
    \/ \E r \in Early, body \in OtherCreateBodies : PostApiDishes(r, body)
    \/ \E r \in Early, dishId \in OtherIds, body \in OtherUpdateBodies :
           PutApiDish(r, dishId, body)
    \/ \E r \in Early, dishId \in OtherIds : DeleteApiDish(r, dishId)
    \/ \E r \in Early, dishId \in OtherIds : PutApiDishToggle(r, dishId)
    \/ \E r \in Early : GetDishesFind(r)
    \/ \E r \in Early : CreateFindOne(r)
    \/ \E r \in Early : CreateInsert(r)
    \/ \E r \in Early : CreateRespond(r)
    \/ \E r \in Early : UpdateFindOne(r)
    \/ \E r \in Early : UpdateSave(r)
    \/ \E r \in Early : UpdateRespond(r)
    \/ \E r \in Early : DeleteFindOneAndDelete(r)
    \/ \E r \in Early : DeleteRespond(r)
    \/ \E r \in Early : ToggleFindOne(r)
    \/ \E r \in Early : ToggleSave(r)
    \/ \E r \in Early : ToggleRespond(r)
    \/ \E r \in Early : StoreError(r)
    \/ \E c \in Clients : Connect(c)
    \/ \E c \in Clients : Disconnect(c)
    \/ \E c \in Clients : Receive(c)

SpecClient == InitClient /\ [][NextClient]_vars

-----------------------------------------------------------------------------
(* One Dashboard alone with the server, its socket connected throughout *)

\* The collections the server holds when the Dashboard opens.
SoloStores == { {}, {SeedA} }

InitSolo ==
    /\ InitClient
    /\ store \in SoloStores
    /\ connected = [c \in Clients |-> TRUE]

NextSolo ==
    \/ \E c \in Clients, r \in Reqs : Mount(c, r)
    \/ \E c \in Clients, r \in Reqs : TryAgain(c, r)
    \/ \E c \in Clients, r \in Reqs : Refresh(c, r)
    \/ \E c \in Clients, r \in Reqs : FetchResolved(c, r)
    \/ \E c \in Clients, r \in Reqs, i \in 1..2 : CardDelete(c, r, i)
    \/ \E c \in Clients, r \in Reqs : DeleteResolved(c, r)
    \/ \E c \in Clients, r \in Reqs, formData \in CreateForms : ModalCreate(c, r, formData)
    \/ \E c \in Clients, r \in Reqs, i \in 1..2, formData \in UpdateForms :
           ModalUpdate(c, r, i, formData)
    \/ \E c \in Clients, r \in Reqs, i \in 1..2 : CardToggle(c, r, i)
    \/ \E c \in Clients, r \in Reqs : ToggleResolved(c, r)
    \/ \E r \in Reqs : ToggleFindOne(r)
    \/ \E r \in Reqs : ToggleSave(r)
    \/ \E r \in Reqs : ToggleRespond(r)
    \/ \E c \in Clients, r, f \in Reqs : ModalSucceeded(c, r, f)
    \/ \E c \in Clients, r \in Reqs : ModalFailed(c, r)
    \/ \E r \in Reqs : UpdateFindOne(r)
    \/ \E r \in Reqs : UpdateSave(r)
    \/ \E r \in Reqs : UpdateRespond(r)
    \/ \E r \in Reqs : GetDishesFind(r)
    \/ \E r \in Reqs : CreateFindOne(r)
    \/ \E r \in Reqs : CreateInsert(r)
    \/ \E r \in Reqs : CreateRespond(r)
    \/ \E r \in Reqs : DeleteFindOneAndDelete(r)
    \/ \E r \in Reqs : DeleteRespond(r)
    \/ \E r \in Reqs : StoreError(r)
    \/ \E c \in Clients : Receive(c)

SpecSolo == InitSolo /\ [][NextSolo]_vars

-----------------------------------------------------------------------------
(* Reading the history *)

\* The dishId a request names: in the body of a create, in the path otherwise.
RequestDishId(r) ==
    IF req[r].op = "create" THEN req[r].body.dishId ELSE req[r].params.dishId

EventsOf(r) == { i \in DOMAIN published : published[i].req = r }

WritesOf(r) == { i \in DOMAIN writes : writes[i].req = r }

\* The dishId an event is about.
EventDishId(e) == IF e.type = "dish-created" THEN e.data.dish.dishId ELSE e.data.dishId

EventType(op) ==
    CASE op = "create" -> "dish-created"
      [] op = "update" -> "dish-updated"
      [] op = "delete" -> "dish-deleted"
      [] op = "toggle" -> "publish-status-updated"

\* The document a store operation touched.
WrittenId(w) == IF w.kind = "insert" THEN w.post._id ELSE w.pre._id

\* Two requests were in progress at the same time.
Concurrent(r1, r2) == r1 \notin req[r2].before /\ r2 \notin req[r1].before

Visible(dish) == [dishName |-> dish.dishName, imageUrl |-> dish.imageUrl,
                  isPublished |-> dish.isPublished]

-----------------------------------------------------------------------------
(* C1 *)

\* C1: after any sequence and interleaving of Create, Update, Delete and
\* Toggle requests, no two records of the store have the same dishId.
C1_UniqueDishId ==
    \A d1, d2 \in store : d1.dishId = d2.dishId => d1 = d2

\* Two creates of one dishId both passed the existence check; the store took
\* one and refused the other.
C1_Witness ==
    \E r1, r2 \in Reqs :
        /\ r1 # r2
        /\ req[r1].op = "create" /\ req[r2].op = "create"
        /\ WritesOf(r1) # {}
        /\ req[r2].doc # Null /\ req[r2].doc.dishId = req[r1].doc.dishId
        /\ Done(r2) /\ WritesOf(r2) = {}

-----------------------------------------------------------------------------
(* C2 *)

\* C2: every Create, Update, Delete or Toggle that has returned a success
\* response has published exactly one event, of the type of its operation
\* and for the dishId of the request (as the schema trims it).
C2_OneEventPerSuccess ==
    \A r \in Reqs :
        (req[r].op \in Mutations /\ Done(r) /\ Success(r)) =>
            /\ Cardinality(EventsOf(r)) = 1
            /\ \A i \in EventsOf(r) :
                 /\ published[i].type = EventType(req[r].op)
                 /\ Trim(EventDishId(published[i])) = Trim(RequestDishId(r))

\* A delete and a toggle have both succeeded.
C2_Witness ==
    \E r1, r2 \in Reqs :
        /\ req[r1].op = "delete" /\ Done(r1) /\ Success(r1)
        /\ req[r2].op = "toggle" /\ Done(r2) /\ Success(r2)

-----------------------------------------------------------------------------
(* C3 *)

\* C3: every published event belongs to a request that returned success; a
\* request answered 400, 404 or 500 has published no event.
C3_NoEventOnFailure ==
    /\ \A i \in DOMAIN published :
         Done(published[i].req) /\ Success(published[i].req)
    /\ \A r \in Reqs : (Done(r) /\ ~Success(r)) => EventsOf(r) = {}

\* One request was answered 404 and another 500, and nothing was published.
C3_Witness ==
    \E r1, r2 \in Reqs :
        /\ Done(r1) /\ res[r1].status = 404
        /\ Done(r2) /\ res[r2].status = 500
        /\ published = <<>>

-----------------------------------------------------------------------------
(* C4 *)

\* C4: the dish carried by a dish-created, dish-updated or
\* publish-status-updated event equals, in dishName, imageUrl and
\* isPublished, the store's record right after that request's write.
C4_EventCarriesStoredRecord ==
    \A i \in DOMAIN published :
        published[i].type # "dish-deleted" =>
            \A w \in WritesOf(published[i].req) :
                Visible(published[i].data.dish) = Visible(writes[w].post)

-----------------------------------------------------------------------------
(* C5 *)

\* C5: when the existence check of a Create finds the request's dishId in
\* the store, the request is answered 400, the store is left as it was and
\* no event is published, then or later.
C5_DuplicateCreateRejected ==
    [][\A r \in Reqs :
         (/\ CreateFindOne(r)
          /\ \E d \in store : d.dishId = Trim(req[r].body.dishId))
         => /\ res'[r].status = 400
            /\ res'[r].success = FALSE
            /\ store' = store
            /\ published' = published
            /\ req'[r].pc = "done"]_vars

\* A create was refused as a duplicate of a record that is still stored.
C5_Witness ==
    \E r \in Reqs :
        /\ req[r].op = "create" /\ Done(r)
        /\ res[r].status = 400
        /\ ~Falsy(req[r].body, "dishId") /\ ~Falsy(req[r].body, "dishName")
        /\ ~Falsy(req[r].body, "imageUrl")
        /\ \E d \in store : d.dishId = Trim(req[r].body.dishId)
        /\ store = seeded

-----------------------------------------------------------------------------
(* C6 *)

\* The store after the first t operations of the log.
RECURSIVE StoreAt(_)
StoreAt(t) ==
    IF t = 0 THEN seeded
    ELSE LET w == writes[t]
             s == StoreAt(t - 1)
         IN  CASE w.kind = "insert" -> s \cup {w.post}
               [] w.kind = "save" -> (s \ {w.pre}) \cup {w.post}
               [] w.kind = "delete" -> s \ {w.pre}

StoreFailed(r) == res[r].status = 500 /\ res[r].error = Str("store unavailable")

ValidBody(body) ==
    /\ ~Falsy(body, "dishId") /\ ~Falsy(body, "dishName") /\ ~Falsy(body, "imageUrl")
    /\ RequiredOk(NewDish(0, body))

\* C6: of two Creates with the same, previously absent dishId that are
\* processed concurrently, exactly one inserts and returns 201, and the
\* other returns 400, inserts nothing and publishes nothing.
C6_ConcurrentCreates ==
    \A r1, r2 \in Reqs :
        (/\ r1 # r2
         /\ req[r1].op = "create" /\ req[r2].op = "create"
         /\ Done(r1) /\ Done(r2)
         /\ Concurrent(r1, r2)
         /\ ValidBody(req[r1].body) /\ ValidBody(req[r2].body)
         /\ Trim(req[r1].body.dishId) = Trim(req[r2].body.dishId)
         /\ \A r \in {r1, r2} :
              ~\E d \in StoreAt(req[r].t0) : d.dishId = Trim(req[r].body.dishId)
         /\ \A q \in Reqs \ {r1, r2} : req[q].pc = "idle"
         /\ ~StoreFailed(r1) /\ ~StoreFailed(r2))
        => \E w, l \in {r1, r2} :
              /\ w # l
              /\ res[w].status = 201 /\ Cardinality(WritesOf(w)) = 1
              /\ res[l].status = 400 /\ WritesOf(l) = {} /\ EventsOf(l) = {}

-----------------------------------------------------------------------------
(* C7 *)

\* C7: two Toggles of a record, the second issued after the first was
\* answered, with no other write to the record from the issue of the first
\* to the write of the second: the record's isPublished ends at the value it
\* had before the first, and the two responses carry complementary values.
C7_ToggleInvolution ==
    \A r1, r2 \in Reqs :
        (/\ req[r1].op = "toggle" /\ req[r2].op = "toggle"
         /\ Done(r1) /\ Done(r2) /\ Success(r1) /\ Success(r2)
         /\ r1 \in req[r2].before
         /\ req[r1].doc._id = req[r2].doc._id)
        => /\ WritesOf(r1) # {} /\ WritesOf(r2) # {}
           /\ \A i \in WritesOf(r1), j \in WritesOf(r2) :
                (~\E k \in DOMAIN writes :
                      /\ k > req[r1].t0 /\ k < j /\ k # i
                      /\ WrittenId(writes[k]) = req[r1].doc._id)
                => /\ writes[j].post.isPublished = writes[i].pre.isPublished
                   /\ res[r2].data.isPublished = ~res[r1].data.isPublished

\* Two toggles of one record, one after the other, have both succeeded.
C7_Witness ==
    \E r1, r2 \in Reqs :
        /\ req[r1].op = "toggle" /\ req[r2].op = "toggle"
        /\ Done(r1) /\ Done(r2) /\ Success(r1) /\ Success(r2)
        /\ r1 \in req[r2].before
        /\ req[r1].doc._id = req[r2].doc._id
        /\ \E d \in store : d._id = req[r1].doc._id

-----------------------------------------------------------------------------
(* C8 *)

\* What a client's listeners have seen and will see, in order.
Stream(c) == received[c] \o channel[c]

\* C8: when mutation A of a record was answered before mutation B of the
\* same record was issued, no client sees B's event before A's event.
C8_SequentialOrder ==
    \A c \in Clients : \A rA, rB \in Reqs :
        (/\ rA \in req[rB].before
         /\ req[rA].op \in Mutations /\ req[rB].op \in Mutations
         /\ Trim(RequestDishId(rA)) = Trim(RequestDishId(rB)))
        => \A i \in EventsOf(rA), j \in EventsOf(rB) :
              \A p, q \in DOMAIN Stream(c) :
                  (Stream(c)[p] = i /\ Stream(c)[q] = j) => p < q

\* A client has received the events of two sequential mutations of a record.
C8_Witness ==
    \E c \in Clients : \E rA, rB \in Reqs :
        /\ rA \in req[rB].before
        /\ req[rA].op \in Mutations /\ req[rB].op \in Mutations
        /\ Trim(RequestDishId(rA)) = Trim(RequestDishId(rB))
        /\ \E i \in EventsOf(rA), j \in EventsOf(rB) :
              \E p, q \in DOMAIN received[c] :
                  received[c][p] = i /\ received[c][q] = j

-----------------------------------------------------------------------------
(* C9 *)

\* C9: applying a dish-updated or publish-status-updated event to the local
\* collection that results from applying it once changes nothing.
C9_IdempotentApply ==
    \A c \in Clients :
        (/\ applied[c] # Null
         /\ applied[c].type \in {"dish-updated", "publish-status-updated"})
        => ApplyEvent(localDishes[c], applied[c].type, applied[c].data) = localDishes[c]

\* A publish-status-updated event was applied to a collection that holds its
\* dish among others.
C9_Witness ==
    \E c \in Clients :
        /\ applied[c] # Null
        /\ applied[c].type = "publish-status-updated"
        /\ Len(localDishes[c]) >= 2
        /\ \E i \in 1..Len(localDishes[c]) :
              localDishes[c][i].dishId = applied[c].data.dishId

-----------------------------------------------------------------------------
(* C10 *)

\* C10: when the lookup of an Update, Delete or Toggle finds no record for
\* the request's dishId, the answer is 404 with the message
\* "Dish with ID <dishId> not found", the store is left as it was and no
\* event is published, then or later.
C10_NotFound ==
    [][\A r \in Reqs :
         (/\ UpdateFindOne(r) \/ DeleteFindOneAndDelete(r) \/ ToggleFindOne(r)
          /\ ~\E d \in store : d.dishId = Trim(req[r].params.dishId))
         => /\ res'[r] = [status |-> 404, success |-> FALSE,
                          message |-> <<"Dish with ID ">> \o req[r].params.dishId
                                         \o <<" not found">>]
            /\ store' = store
            /\ published' = published
            /\ req'[r].pc = "done"]_vars

\* A delete and another mutation of absent dishIds were both answered 404.
C10_Witness ==
    \E r1, r2 \in Reqs :
        /\ req[r1].op = "delete" /\ Done(r1) /\ res[r1].status = 404
        /\ req[r2].op \in {"update", "toggle"} /\ Done(r2) /\ res[r2].status = 404
        /\ store = seeded /\ published = <<>>

-----------------------------------------------------------------------------
(* C11 *)

\* The value a request body supplies for a path, as the schema casts it.
Supplied(body, k) == IF k = "isPublished" THEN body[k] ELSE Trim(body[k])

\* C11: the save of an Update changes, in the target record, exactly the
\* paths the body supplies, to the supplied values; the paths not supplied
\* and the dishId keep their values, and every other record is unchanged.
C11_UpdateFrame ==
    [][\A r \in Reqs :
         (/\ UpdateSave(r)
          /\ \E d \in store : d._id = req[r].doc._id)
         => \E stored \in store, saved \in store' :
               /\ stored._id = req[r].doc._id /\ saved._id = stored._id
               /\ store' \ {saved} = store \ {stored}
               /\ saved.dishId = stored.dishId
               /\ \A k \in Paths :
                    saved[k] = IF Has(req[r].body, k)
                               THEN Supplied(req[r].body, k) ELSE stored[k]]_vars

-----------------------------------------------------------------------------
(* C12 *)

\* C12: a Create whose three required fields are non-empty and whose
\* existence check found the dishId absent is answered 201 and has inserted
\* exactly one record, with the three values and with the supplied
\* isPublished, or false; the other records are as they were.
C12_CreateSucceeds ==
    \A r \in Reqs :
        (/\ req[r].op = "create" /\ Done(r)
         /\ ValidBody(req[r].body)
         /\ req[r].doc # Null
         /\ ~StoreFailed(r))
        => /\ res[r].status = 201
           /\ Cardinality(WritesOf(r)) = 1
           /\ \A w \in WritesOf(r) :
                /\ writes[w].kind = "insert"
                /\ writes[w].post.dishId = Trim(req[r].body.dishId)
                /\ writes[w].post.dishName = Trim(req[r].body.dishName)
                /\ writes[w].post.imageUrl = Trim(req[r].body.imageUrl)
                /\ writes[w].post.isPublished =
                     (IF Has(req[r].body, "isPublished")
                      THEN req[r].body.isPublished ELSE FALSE)
                /\ StoreAt(w) = StoreAt(w - 1) \cup {writes[w].post}
                /\ writes[w].post \notin StoreAt(w - 1)

-----------------------------------------------------------------------------
(* C13 *)

MissingOrEmpty(body, k) == k \notin DOMAIN body \/ body[k] = <<>>

\* C13: a Create in which dishId, dishName or imageUrl is missing or empty
\* is answered 400, inserts no record and publishes no event.
C13_CreateRejectsMissing ==
    \A r \in Reqs :
        (/\ req[r].op = "create" /\ req[r].pc # "idle"
         /\ \E k \in {"dishId", "dishName", "imageUrl"} : MissingOrEmpty(req[r].body, k))
        => /\ Done(r)
           /\ res[r].status = 400 /\ res[r].success = FALSE
           /\ WritesOf(r) = {} /\ EventsOf(r) = {}

\* A create without dishName and a create with an empty imageUrl were both
\* refused.
C13_Witness ==
    \E r1, r2 \in Reqs :
        /\ req[r1].op = "create" /\ Done(r1) /\ "dishName" \notin DOMAIN req[r1].body
        /\ req[r2].op = "create" /\ Done(r2) /\ "imageUrl" \in DOMAIN req[r2].body
        /\ req[r2].body.imageUrl = <<>>
        /\ res[r1].status = 400 /\ res[r2].status = 400

-----------------------------------------------------------------------------
(* C14 *)

-----------------------------------------------------------------------------
(* The states of useFetchDishes *)

Loading(c) == loading[c]
ErrorState(c) == ~loading[c] /\ error[c] # Null
Ready(c) == ~loading[c] /\ error[c] = Null

-----------------------------------------------------------------------------
(* C15 *)

\* The requests client c has sent.
RequestsOf(c) == { r \in Reqs : caller[r] = c }

\* Client c has been handed every event published so far, in order: it was
\* connected at each publication and lost nothing.
ReceivedAll(c) ==
    /\ connected[c]
    /\ channel[c] = <<>>
    /\ received[c] = [i \in 1..Len(published) |-> i]

\* Client c fetched its snapshot once (on mount, or before the behaviour
\* starts) and has sent nothing else.
OnlyInitialFetch(c) ==
    /\ \A r \in RequestsOf(c) : req[r].op = "list" /\ handled[r] /\ Success(r)
    /\ Cardinality(RequestsOf(c)) <= 1
    /\ Ready(c)

\* No request is in flight.
Quiescent == \A r \in Reqs : req[r].pc \in {"idle", "done"}

\* What the claims compare of a record: its dishId and the visible fields.
Fields(d) ==
    [dishId |-> d.dishId, dishName |-> d.dishName,
     imageUrl |-> d.imageUrl, isPublished |-> d.isPublished]

\* C15: a client that stays connected and fetches its snapshot once holds,
\* once the mutations have stopped and every response and event has been
\* delivered, exactly the records of the store: the same dishIds, each with
\* the store's dishName, imageUrl and isPublished.
C15_EventuallyConsistent ==
    \A c \in Clients :
        (ReceivedAll(c) /\ OnlyInitialFetch(c) /\ Quiescent)
        => /\ { Fields(localDishes[c][i]) : i \in DOMAIN localDishes[c] }
                = { Fields(d) : d \in store }
           /\ Len(localDishes[c]) = Cardinality(store)

-----------------------------------------------------------------------------
(* C16 *)

\* This step hands client c the 2xx response of its request r, one of ops.
Confirmed(c, r, ops) ==
    /\ caller[r] = c /\ req[r].op \in ops /\ Success(r)
    /\ ~handled[r] /\ handled'[r]

\* This step sends a snapshot fetch of client c.
Refetch(c) ==
    \E f \in Reqs : caller[f] # c /\ caller'[f] = c /\ req'[f].op = "list"

\* This step copies a fetched snapshot into the local collection of c.
BySnapshot(c) ==
    \E f \in Reqs : /\ Confirmed(c, f, {"list"})
                    /\ localDishes'[c] = res[f].data

\* This step hands client c a broadcast event.
ByEvent(c) == received'[c] # received[c]

\* The list without the records of a dishId.
Without(list, dishId) ==
    LET Other(d) == d.dishId # dishId IN SelectSeq(list, Other)

-----------------------------------------------------------------------------
(* C17 *)

\* The list after the listener of c has been handed published event i.
AfterEvent(list, i) == ApplyEvent(list, published[i].type, published[i].data)

\* C17: once a client has applied the response of its own successful toggle,
\* applying the event of that toggle changes nothing; and applying the event
\* first and the response second gives the same local collection.
C17_ToggleEchoIsNoOp ==
    [][\A c \in Clients, r \in Reqs :
         /\ Confirmed(c, r, {"toggle"})
              => \A i \in EventsOf(r) :
                   /\ AfterEvent(localDishes'[c], i) = localDishes'[c]
                   /\ OnToggleResponse(AfterEvent(localDishes[c], i), res[r],
                                       req[r].params.dishId)
                        = AfterEvent(localDishes'[c], i)
         /\ (/\ caller[r] = c /\ req[r].op = "toggle" /\ Success(r) /\ ~handled[r]
             /\ ByEvent(c) /\ Head(channel[c]) \in EventsOf(r))
              => /\ OnToggleResponse(localDishes'[c], res[r], req[r].params.dishId)
                      = localDishes'[c]
                 /\ localDishes'[c]
                      = AfterEvent(OnToggleResponse(localDishes[c], res[r],
                                                    req[r].params.dishId),
                                   Head(channel[c]))]_vars

\* A client's toggle was answered 2xx, the response was applied, the event of
\* the toggle was the last one handed to the client, and the card shows the
\* status the response carried.
C17_Witness ==
    \E c \in Clients, r \in Reqs :
        /\ caller[r] = c /\ req[r].op = "toggle" /\ Success(r) /\ handled[r]
        /\ received[c] # <<>>
        /\ received[c][Len(received[c])] \in EventsOf(r)
        /\ \E i \in DOMAIN localDishes[c] :
             /\ localDishes[c][i].dishId = req[r].params.dishId
             /\ localDishes[c][i].isPublished = res[r].data.isPublished

-----------------------------------------------------------------------------
(* C18 *)

\* C18: a client enters ErrorState only from Loading, by a fetch that
\* failed; Try Again takes it from ErrorState to Loading with the error
\* cleared; a fetch that succeeded takes it from Loading to Ready with the
\* local collection equal to the snapshot fetched.
C18_FetchStates ==
    [][\A c \in Clients :
         /\ (~ErrorState(c) /\ ErrorState(c)')
              => /\ Loading(c)
                 /\ \E r \in Reqs : /\ caller[r] = c /\ req[r].op = "list"
                                    /\ ~Success(r)
                                    /\ ~handled[r] /\ handled'[r]
         /\ \A r \in Reqs :
              (/\ caller[r] = c /\ req[r].op = "list" /\ Success(r)
               /\ ~handled[r] /\ handled'[r])
              => /\ Loading(c) /\ Ready(c)'
                 /\ localDishes'[c] = res[r].data
         /\ \A r \in Reqs :
              (/\ ErrorState(c) /\ caller[r] # c /\ caller'[r] = c)
              => /\ req'[r].op = "list"
                 /\ Loading(c)' /\ error'[c] = Null]_vars

-----------------------------------------------------------------------------
(* C19 *)

\* This step hands client c the non-2xx response of its mutation r.
Failed(c, r) ==
    /\ caller[r] = c /\ req[r].op \in Mutations /\ ~Success(r)
    /\ ~handled[r] /\ handled'[r]

\* This step sends mutation r of client c.
Sent(c, r) == caller[r] # c /\ caller'[r] = c /\ req'[r].op \in Mutations

\* C19: a Toggle, Delete, Create or Update of a client that is answered with
\* a non-2xx status changes nothing of the client's local collection: neither
\* the step that sends the request nor the step that handles the failure
\* changes it, and between the two it changes only by a broadcast event, a
\* snapshot or the confirmation of another request of the client.
C19_FailureLeavesLocal ==
    [][\A c \in Clients :
         /\ \A r \in Reqs :
              (Sent(c, r) \/ Failed(c, r))
              => /\ localDishes'[c] = localDishes[c]
                 /\ dishes'[c] = dishes[c]
         /\ \A r \in Reqs :
              Failed(c, r) => ~Refetch(c) /\ loading'[c] = loading[c]
                              /\ error'[c] = error[c]
         /\ localDishes'[c] # localDishes[c]
              => \/ BySnapshot(c) \/ ByEvent(c)
                 \/ \E r \in Reqs : Confirmed(c, r, {"toggle", "delete"})]_vars

\* A toggle of the client on a dish its list shows was answered 404 or 500,
\* and the failure has been handled.
C19_Witness ==
    \E c \in Clients, r \in Reqs :
        /\ caller[r] = c /\ req[r].op = "toggle" /\ handled[r]
        /\ res[r].status \in {404, 500}
        /\ \E i \in DOMAIN localDishes[c] :
             /\ localDishes[c][i].dishId = req[r].params.dishId
             /\ ~localDishes[c][i].isPublished

-----------------------------------------------------------------------------
(* C20 *)

\* The events of a sequence of indices of published, as a set.
Indices(seq) == { seq[k] : k \in DOMAIN seq }

\* C20: a published event is sent once to every client connected when it is
\* published, the client whose request caused it included, and to no other;
\* it reaches a client at most once, and a client never gets an event
\* published before it connected: no step but an event's publication adds it
\* to what a client has received or is about to receive.
C20_Delivery ==
    [][\A c \in Clients :
         /\ published' # published
              => /\ Len(published') = Len(published) + 1
                 /\ Stream(c)' = IF connected[c]
                                 THEN Append(Stream(c), Len(published'))
                                 ELSE Stream(c)
         /\ published' = published
              => Stream(c)' \in {Stream(c), received[c]}
         /\ received'[c] # received[c]
              => received'[c] = Append(received[c], Head(channel[c]))
         /\ Cardinality(Indices(Stream(c)')) = Len(Stream(c)')]_vars

\* Two events are published; the client connected after the first one, which
\* it never got, and it was handed the second one, which its own request
\* caused.
C20_Witness ==
    \E c \in Clients :
        /\ connected[c]
        /\ Len(published) = 2
        /\ received[c] = <<2>>
        /\ caller[published[2].req] = c

-----------------------------------------------------------------------------
(* C21 *)

\* The store removed a record of dishId with write i and has inserted none
\* with that dishId since.
DeletedSince(i, dishId) ==
    /\ writes[i].kind = "delete" /\ writes[i].pre.dishId = dishId
    /\ \A j \in (i + 1)..Len(writes) :
         ~(writes[j].kind = "insert" /\ writes[j].post.dishId = dishId)

\* C21: from the Delete of a dishId until the next Create of it, the store
\* holds no record with that dishId: an Update or a Toggle that read the
\* record before the Delete and saves after it does not bring it back.
C21_DeleteIsPermanent ==
    \A i \in DOMAIN writes :
        DeletedSince(i, writes[i].pre.dishId)
        => \A d \in store : d.dishId # writes[i].pre.dishId

\* An Update or a Toggle read the record, a Delete then removed it and was
\* answered 200, and the save of the stale document found nothing.
C21_Witness ==
    \E r, q \in Reqs :
        /\ req[q].op = "delete" /\ Done(q) /\ Success(q)
        /\ req[r].op \in {"update", "toggle"} /\ Done(r)
        /\ req[r].doc # Null /\ req[r].doc.dishId = Trim(req[q].params.dishId)
        /\ res[r].status = 500
        /\ res[r].error = Str("No document found for query")
        /\ \A d \in store : d.dishId # req[r].doc.dishId

-----------------------------------------------------------------------------
(* C22 *)

\* Toggles r1 and r2 were in progress at the same time, both found the same
\* record, the store failed neither, and nothing has deleted the record.
ConcurrentToggles(r1, r2) ==
    /\ r1 # r2
    /\ req[r1].op = "toggle" /\ req[r2].op = "toggle"
    /\ Done(r1) /\ Done(r2) /\ Concurrent(r1, r2)
    /\ req[r1].doc # Null /\ req[r2].doc # Null
    /\ req[r1].doc._id = req[r2].doc._id
    /\ ~StoreFailed(r1) /\ ~StoreFailed(r2)
    /\ \A k \in DOMAIN writes :
         writes[k].kind = "delete" => writes[k].pre._id # req[r1].doc._id

\* The last write to the store made for one of two requests.
LastWrite(r1, r2) ==
    CHOOSE i \in WritesOf(r1) \cup WritesOf(r2) :
        \A j \in WritesOf(r1) \cup WritesOf(r2) : j <= i

\* C22: two Toggles of one existing dish processed concurrently both return
\* success, each publishes exactly one publish-status-updated event, and the
\* record ends with the isPublished of the toggle whose write the store
\* applied last.
C22_ConcurrentToggles ==
    \A r1, r2 \in Reqs :
        ConcurrentToggles(r1, r2)
        => /\ res[r1].status = 200 /\ res[r1].success
           /\ res[r2].status = 200 /\ res[r2].success
           /\ \A r \in {r1, r2} :
                /\ Cardinality(EventsOf(r)) = 1
                /\ \A i \in EventsOf(r) :
                     published[i].type = "publish-status-updated"
                /\ Cardinality(WritesOf(r)) = 1
           /\ LET last == LastWrite(r1, r2)
              IN  (\A k \in DOMAIN writes :
                       k > last => WrittenId(writes[k]) # req[r1].doc._id)
                  => \E d \in store :
                       /\ d._id = req[r1].doc._id
                       /\ d.isPublished = res[writes[last].req].data.isPublished
                       /\ d.isPublished = writes[last].post.isPublished

\* Two Toggles both read the record before either saved: both answered 200,
\* and the second save wrote the value the record already had.
C22_Witness ==
    \E r1, r2 \in Reqs :
        /\ ConcurrentToggles(r1, r2)
        /\ res[r1].status = 200 /\ res[r2].status = 200
        /\ Len(published) = 2
        /\ \E i \in WritesOf(r1), j \in WritesOf(r2) :
             /\ i < j
             /\ writes[j].pre.isPublished = writes[j].post.isPublished
             /\ writes[i].post.isPublished = writes[j].post.isPublished

-----------------------------------------------------------------------------
(* C23 *)

\* The list is in ascending order of dishName, as localeCompare orders names.
SortedByName(list) ==
    \A i \in 1..(Len(list) - 1) :
        LocaleCompare(list[i].dishName, list[i + 1].dishName) <= 0

\* The positions of the records of a dishId.
Positions(list, dishId) == { i \in DOMAIN list : list[i].dishId = dishId }

\* This step hands the listeners of c an event of one of the types.
Applies(c, types) ==
    /\ applied'[c] # Null /\ applied'[c].type \in types
    /\ <<localDishes[c], applied[c]>> # <<localDishes'[c], applied'[c]>>

\* C23: a dish-created event applied to a collection sorted by dishName
\* gives a collection sorted by dishName that holds the dishId of the event
\* once: the event's dish is added at its place when the dishId was absent,
\* and the collection is left as it was when the dishId was present.
C23_CreatedKeepsSorted ==
    [][\A c \in Clients :
         (/\ Applies(c, {"dish-created"})
          /\ SortedByName(localDishes[c])
          /\ Cardinality(Positions(localDishes[c], applied'[c].data.dish.dishId)) <= 1)
         => LET dish == applied'[c].data.dish
                prev == localDishes[c]
                next == localDishes'[c]
            IN  /\ SortedByName(next)
                /\ Cardinality(Positions(next, dish.dishId)) = 1
                /\ IF Positions(prev, dish.dishId) # {}
                   THEN next = prev
                   ELSE /\ Len(next) = Len(prev) + 1
                        /\ \E k \in DOMAIN next :
                             /\ next[k] = dish
                             /\ \A i \in DOMAIN prev :
                                  prev[i] = next[IF i < k THEN i ELSE i + 1]]_vars

\* The last event applied was a dish-created whose dish went between two
\* records of a sorted collection.
C23_Witness ==
    \E c \in Clients :
        /\ applied[c] # Null /\ applied[c].type = "dish-created"
        /\ SortedByName(localDishes[c])
        /\ Len(localDishes[c]) = 3
        /\ localDishes[c][2] = applied[c].data.dish
        /\ localDishes[c][1].dishName # localDishes[c][3].dishName

-----------------------------------------------------------------------------
(* C24 *)

\* This step publishes an event for request r.
Publishes(r) ==
    /\ Len(published') = Len(published) + 1
    /\ published'[Len(published')].req = r

\* This step sends the success response of mutation r.
Answers(r) ==
    /\ res[r].status = 0 /\ res'[r].status \in {200, 201}
    /\ req'[r].op \in Mutations

\* The awaited store call of request r has returned, and what it had to write
\* is written (a save() of a document with no modified path writes nothing).
WriteCompleted(r) ==
    /\ req[r].pc = "respond"
    /\ CASE req[r].op = "create" ->
              \E i \in WritesOf(r) : writes[i].kind = "insert"
         [] req[r].op = "delete" ->
              \E i \in WritesOf(r) : writes[i].kind = "delete"
         [] req[r].op = "toggle" ->
              \E i \in WritesOf(r) : writes[i].kind = "save"
         [] req[r].op = "update" ->
              req[r].modified # {} => \E i \in WritesOf(r) : writes[i].kind = "save"
         [] OTHER -> FALSE

\* C24: in a successful Create, Update, Delete or Toggle the store write
\* completes, then the event is published, then the success response is
\* sent: an event is published only once the write of its request has
\* completed, and a success response is sent only once the event of its
\* request has been published, the event first.
C24_WriteEmitRespond ==
    [][\A r \in Reqs :
         /\ Publishes(r)
              => /\ WriteCompleted(r)
                 /\ writes' = writes /\ store' = store
                 /\ res[r].status = 0
         /\ Answers(r)
              => /\ Publishes(r)
                 /\ Cardinality(EventsOf(r)) = 0]_vars

\* A Create and a Toggle have both written, published and answered.
C24_Witness ==
    \E r1, r2 \in Reqs :
        /\ req[r1].op = "create" /\ req[r2].op = "toggle"
        /\ Done(r1) /\ Done(r2) /\ Success(r1) /\ Success(r2)
        /\ WritesOf(r1) # {} /\ WritesOf(r2) # {}
        /\ EventsOf(r1) # {} /\ EventsOf(r2) # {}

-----------------------------------------------------------------------------
(* C25 *)

\* The requests of the behaviour are toggles of one dish, the client's own
\* among them or not; all are answered, and client c has handled the
\* responses of its own.
OnlyTogglesOf(c, dishId) ==
    /\ \A r \in Reqs :
         \/ req[r].pc = "idle"
         \/ /\ req[r].op = "toggle" /\ Done(r)
            /\ Trim(req[r].params.dishId) = dishId
            /\ caller[r] = c => handled[r]
    /\ published # <<>>

\* C25: once every response and every event of a set of toggles of one dish
\* has reached a connected client, whatever the order of the responses
\* relative to the events, the client's isPublished for the dish is the one
\* the last published event carries.
C25_LastEventWins ==
    \A c \in Clients :
        \A i \in DOMAIN localDishes[c] :
            (/\ OnlyTogglesOf(c, localDishes[c][i].dishId)
             /\ ReceivedAll(c)
             /\ Ready(c))
            => localDishes[c][i].isPublished
                   = published[Len(published)].data.isPublished

-----------------------------------------------------------------------------
(* C26 *)

\* The list is in ascending order of dishName, as the store orders names.
SortedByCodePoint(list) ==
    \A i \in 1..(Len(list) - 1) :
        CompareBinary(list[i].dishName, list[i + 1].dishName) <= 0

\* C26: while a client is Ready its local collection is sorted in ascending
\* order of dishName, be the order that of the store's sort or that of
\* localeCompare.
C26_LocalSorted ==
    \A c \in Clients :
        Ready(c) => \/ SortedByName(localDishes[c])
                    \/ SortedByCodePoint(localDishes[c])

-----------------------------------------------------------------------------
(* C27 *)

\* C27: whatever snapshots, events and local toggle and delete updates a
\* client has applied, no two records of its local collection have the same
\* dishId.
C27_LocalUnique ==
    \A c \in Clients :
        \A i, j \in DOMAIN localDishes[c] :
            localDishes[c][i].dishId = localDishes[c][j].dishId => i = j

\* A client loaded a snapshot and then was handed a dish-created event whose
\* dish the snapshot did not hold: the collection holds both.
C27_Witness ==
    \E c \in Clients, f \in Reqs :
        /\ caller[f] = c /\ req[f].op = "list" /\ handled[f] /\ Success(f)
        /\ applied[c] # Null /\ applied[c].type = "dish-created"
        /\ Len(localDishes[c]) >= 2
        /\ Positions(localDishes[c], applied[c].data.dish.dishId) # {}
        /\ Positions(res[f].data, applied[c].data.dish.dishId) = {}

-----------------------------------------------------------------------------
(* C28 *)

\* The body supplies the empty string for a required path.
SuppliesEmpty(body) ==
    \/ Has(body, "dishName") /\ body.dishName = <<>>
    \/ Has(body, "imageUrl") /\ body.imageUrl = <<>>

\* C28: every record of the store has a non-empty dishId, dishName and
\* imageUrl; an Update that supplies an empty dishName or imageUrl fails,
\* writes nothing and publishes nothing.
C28_RequiredFieldsKept ==
    /\ \A d \in store :
         d.dishId # <<>> /\ d.dishName # <<>> /\ d.imageUrl # <<>>
    /\ \A r \in Reqs :
         (req[r].op = "update" /\ SuppliesEmpty(req[r].body))
         => /\ WritesOf(r) = {} /\ EventsOf(r) = {}
            /\ Done(r) => ~Success(r) /\ ~res[r].success

\* An Update of an existing dish supplied an empty imageUrl and was refused
\* by the validation of save().
C28_Witness ==
    \E r \in Reqs :
        /\ req[r].op = "update" /\ Done(r)
        /\ Has(req[r].body, "imageUrl") /\ req[r].body.imageUrl = <<>>
        /\ res[r].status = 500
        /\ res[r].error = Str("Dish validation failed")
        /\ \E d \in store : d.dishId = Trim(req[r].params.dishId)

-----------------------------------------------------------------------------
(* C29 *)

\* Write k inserts or deletes a record of dishId.
InsertsOrDeletes(k, dishId) ==
    \/ writes[k].kind = "insert" /\ writes[k].post.dishId = dishId
    \/ writes[k].kind = "delete" /\ writes[k].pre.dishId = dishId

\* Deletes r1 and r2 of one dishId were in progress at the same time, the
\* dish existed when the first of them arrived, the store failed neither,
\* and no other request has inserted or deleted the dish since.
ConcurrentDeletes(r1, r2) ==
    /\ r1 # r2
    /\ req[r1].op = "delete" /\ req[r2].op = "delete"
    /\ Done(r1) /\ Done(r2) /\ Concurrent(r1, r2)
    /\ Trim(req[r1].params.dishId) = Trim(req[r2].params.dishId)
    /\ ~StoreFailed(r1) /\ ~StoreFailed(r2)
    /\ LET t == IF req[r1].t0 <= req[r2].t0 THEN req[r1].t0 ELSE req[r2].t0
           dishId == Trim(req[r1].params.dishId)
       IN  /\ \E d \in StoreAt(t) : d.dishId = dishId
           /\ \A k \in (t + 1)..Len(writes) :
                InsertsOrDeletes(k, dishId) => writes[k].req \in {r1, r2}

\* C29: of two Deletes of one existing dishId that are processed
\* concurrently, one returns 200 and publishes one dish-deleted event, the
\* other returns 404 and publishes nothing.
C29_ConcurrentDeletes ==
    \A r1, r2 \in Reqs :
        ConcurrentDeletes(r1, r2)
        => \E won, lost \in {r1, r2} :
             /\ won # lost
             /\ res[won].status = 200
             /\ Cardinality(EventsOf(won)) = 1
             /\ \A i \in EventsOf(won) : published[i].type = "dish-deleted"
             /\ Cardinality(WritesOf(won)) = 1
             /\ res[lost].status = 404
             /\ EventsOf(lost) = {} /\ WritesOf(lost) = {}

\* Two concurrent Deletes of a dish are answered, one with 200 and one with
\* 404.
C29_Witness ==
    \E r1, r2 \in Reqs :
        /\ ConcurrentDeletes(r1, r2)
        /\ res[r1].status = 200 /\ res[r2].status = 404
        /\ Len(published) = 1

-----------------------------------------------------------------------------
(* C30 *)

\* C30: a dish-updated, dish-deleted or publish-status-updated event whose
\* dishId the local collection does not hold leaves the collection as it
\* was; one whose dishId it holds leaves every other record, and the order
\* of the records, as they were.
C30_EventFrame ==
    [][\A c \in Clients :
         Applies(c, {"dish-updated", "dish-deleted", "publish-status-updated"})
         => LET dishId == applied'[c].data.dishId
                prev == localDishes[c]
                next == localDishes'[c]
            IN  /\ Positions(prev, dishId) = {} => next = prev
                /\ applied'[c].type = "dish-deleted"
                     => next = Without(prev, dishId)
                /\ applied'[c].type # "dish-deleted"
                     => /\ Len(next) = Len(prev)
                        /\ Positions(next, dishId) = Positions(prev, dishId)
                        /\ \A i \in DOMAIN prev :
                             prev[i].dishId # dishId => next[i] = prev[i]]_vars

\* A dish-updated event renamed the first of several records: the record
\* was replaced where it stood, which left the collection out of order.
C30_Witness ==
    \E c \in Clients :
        /\ applied[c] # Null /\ applied[c].type = "dish-updated"
        /\ Len(localDishes[c]) >= 2
        /\ localDishes[c][1] = applied[c].data.dish
        /\ ~SortedByName(localDishes[c])

====
